---- MODULE Spec2Model ----
(***************************************************************************)
(* Linear-referencing core of corridor-toolkit-vias-verdes:                *)
(*   src/src/chainage.py  format_chainage, parse_chainage, chainage,       *)
(*                        generate_chainage_points                         *)
(*   src/src/geometry.py  to_single_line, extract_single_line,             *)
(*                        get_centroids, project_point_to_line,            *)
(*                        perpendicular_distance                           *)
(*   src/src/annotate.py  annotate_to_axis, filter_by_radius,              *)
(*                        sort_by_chainage                                 *)
(*                                                                         *)
(* Numbers.  Every length and coordinate is a fixed-point number counted   *)
(* in units of 1/Scale metre (Scale = 4: quarter metres).  These values    *)
(* are dyadic, so the binary floats of the program represent them, add     *)
(* them and compare them exactly; round() sees an exact tie at x.5.        *)
(* Text.  A Python str is a sequence of one-character strings.             *)
(***************************************************************************)
EXTENDS Integers, Sequences, FiniteSets, TLC

VARIABLES
    pc,           \* position of the running call
    distance_m,   \* format_chainage: argument, in units (NoDistance: none)
    label,        \* the chainage label formatted, or handed to parse_chainage
    template,     \* format_chainage: argument, the pieces of the format string
    parsed,       \* parse_chainage: what the call returned or raised
    line,         \* the alignment (axis_line): its vertices in order
    point,        \* the point handed to chainage / project_point_to_line
    interval_m,   \* generate_chainage_points: argument
    start_m,      \* generate_chainage_points: argument
    total_length, \* generate_chainage_points: local
    distance,     \* generate_chainage_points: local, the loop variable
    points,       \* generate_chainage_points: local, the markers so far
    ret,          \* what the last geometry call returned
    frames,       \* the data frames alive, each an object of its own
    arg,          \* the frame handed to the last annotate call (0: none)
    res,          \* the frame the last annotate call returned (0: none)
    radius_m,     \* filter_by_radius: argument
    line_geom,    \* to_single_line: argument
    axis_gdf      \* extract_single_line: the geometry column of its argument

vars == <<pc, distance_m, label, template, parsed, line, point, interval_m,
          start_m,
          total_length, distance, points, ret, frames, arg, res, radius_m,
          line_geom, axis_gdf>>

codecVars == <<distance_m, label, template, parsed>>
markerVars == <<interval_m, start_m, total_length, distance, points>>
frameVars == <<frames, arg, res, radius_m>>
normalizerVars == <<line_geom, axis_gdf>>

---------------------------------------------------------------------------
(* Bounds of the model *)

Scale == 4
MaxMeters == 2050
MaxLabelLen == 5
GridMax == 2
MaxVertices == 3
MaxInterval == 3
MaxStart == 3
MaxFeatures == 2
MaxRadius == 2
MaxParts == 3

NoDistance == 0 - 1

\* distances exercised by tests/test_core.py, in metres
TestMeters == {5250, 11795, 1001, 10000, 99999, 150000}

Distances ==
    (0 .. MaxMeters * Scale)
        \cup {m * Scale : m \in TestMeters}
        \cup {5250 * Scale + k : k \in 1 .. (Scale - 1)}

LabelAlphabet == {"K", "k", "+", "0", "1", "x"}

\* labels exercised by tests/test_core.py and named by the specification
TestLabels ==
    { <<"5", "+", "2", "5", "0">>,
      <<"K", "5">>,
      <<"i", "n", "v", "a", "l", "i", "d">>,
      <<"K", "+", "2", "5", "0">>,
      <<"K", "x", "+", "1">>,
      <<"K", "5", "+", "2", "5", "0">>,
      <<"k", "5", "+", "2", "5", "0">>,
      <<"K", "1", "1", "+", "7", "9", "5">>,
      <<"K", "1", "+", "2", "0", "0", "+", "3", "0", "0">>,
      <<"K", "5", "+", "2", "K", "5">> }

Labels ==
    UNION {[1 .. n -> LabelAlphabet] : n \in 0 .. MaxLabelLen} \cup TestLabels

---------------------------------------------------------------------------
(* Python built-ins used by chainage.py *)

Abs(x) == IF x < 0 THEN 0 - x ELSE x

DigitChars == <<"0", "1", "2", "3", "4", "5", "6", "7", "8", "9">>

IsDigit(c) == \E i \in 1 .. 10 : DigitChars[i] = c

DigitVal(c) == (CHOOSE i \in 1 .. 10 : DigitChars[i] = c) - 1

\* round(x) on a float: to the nearest integer, an exact tie to the even one
PyRound(q) ==
    LET fl == q \div Scale
        r  == q % Scale
    IN  IF 2 * r < Scale THEN fl
        ELSE IF 2 * r > Scale THEN fl + 1
        ELSE IF fl % 2 = 0 THEN fl ELSE fl + 1

\* divmod(a, b) for b > 0: floor division and its remainder
PyDivmod(a, b) == <<a \div b, a % b>>

RECURSIVE NatToStr(_)
NatToStr(n) ==
    IF n < 10 THEN <<DigitChars[n + 1]>>
    ELSE NatToStr(n \div 10) \o <<DigitChars[(n % 10) + 1]>>

\* f"{n}" of an int
IntToStr(n) == IF n < 0 THEN <<"-">> \o NatToStr(0 - n) ELSE NatToStr(n)

RECURSIVE ZeroPad(_, _)
ZeroPad(s, w) == IF Len(s) >= w THEN s ELSE ZeroPad(<<"0">> \o s, w)

\* f"{n:03d}" of an int: the sign first, zeros up to a width of three
Format03d(n) ==
    IF n < 0 THEN <<"-">> \o ZeroPad(NatToStr(0 - n), 2)
    ELSE ZeroPad(NatToStr(n), 3)

LowerChars == <<"a", "b", "c", "d", "e", "f", "g", "h", "i", "j", "k", "l", "m",
                "n", "o", "p", "q", "r", "s", "t", "u", "v", "w", "x", "y", "z">>
UpperChars == <<"A", "B", "C", "D", "E", "F", "G", "H", "I", "J", "K", "L", "M",
                "N", "O", "P", "Q", "R", "S", "T", "U", "V", "W", "X", "Y", "Z">>

UpperChar(c) ==
    IF \E i \in 1 .. 26 : LowerChars[i] = c
    THEN UpperChars[CHOOSE i \in 1 .. 26 : LowerChars[i] = c]
    ELSE c

\* str.upper()
StrUpper(s) == [i \in 1 .. Len(s) |-> UpperChar(s[i])]

\* str.replace(c, ""): every occurrence of the character is removed
StrRemove(s, c) == SelectSeq(s, LAMBDA x : x # c)

\* str.split(sep): the pieces between the separators, empty ones kept
RECURSIVE StrSplit(_, _)
StrSplit(s, sep) ==
    IF \A i \in 1 .. Len(s) : s[i] # sep THEN <<s>>
    ELSE LET i == CHOOSE j \in 1 .. Len(s) :
                      s[j] = sep /\ \A k \in 1 .. (j - 1) : s[k] # sep
         IN  <<SubSeq(s, 1, i - 1)>> \o StrSplit(SubSeq(s, i + 1, Len(s)), sep)

RECURSIVE DigitsValue(_)
DigitsValue(s) ==
    IF s = <<>> THEN 0
    ELSE 10 * DigitsValue(SubSeq(s, 1, Len(s) - 1)) + DigitVal(s[Len(s)])

AllDigits(s) == s # <<>> /\ \A i \in 1 .. Len(s) : IsDigit(s[i])

\* int(s) of a str over the characters of the model: an optional "-" and
\* one or more decimal digits, anything else raises ValueError
PyInt(s) ==
    IF AllDigits(s) THEN [ok |-> TRUE, value |-> DigitsValue(s)]
    ELSE IF s # <<>> /\ s[1] = "-" /\ AllDigits(Tail(s))
         THEN [ok |-> TRUE, value |-> 0 - DigitsValue(Tail(s))]
         ELSE [ok |-> FALSE, value |-> 0]

---------------------------------------------------------------------------
(* chainage.py: the chainage codec *)

\* format_chainage with the remainder padded to two digits ("{rest:02d}")
format_chainage_pad2(d) ==
    LET dm == PyDivmod(PyRound(d), 1000)
    IN  <<"K">> \o IntToStr(dm[1]) \o <<"+">> \o ZeroPad(NatToStr(dm[2]), 2)

\* format_chainage(distance_m): distance_m in units, the label as a str
format_chainage(d) ==
    LET dm == PyDivmod(PyRound(d), 1000)
    IN  <<"K">> \o IntToStr(dm[1]) \o <<"+">> \o Format03d(dm[2])

Returned(v) == [raised |-> FALSE, value |-> v]
ValueError == [raised |-> TRUE, value |-> 0]

\* parse_chainage with the kilometres weighted by 100
parse_chainage_km100(l) ==
    LET parts == StrSplit(StrRemove(StrUpper(l), "K"), "+")
        km    == PyInt(parts[1])
    IN  IF ~km.ok THEN ValueError
        ELSE IF Len(parts) < 2 THEN ValueError
        ELSE LET rest == PyInt(parts[2])
             IN  IF ~rest.ok THEN ValueError
                 ELSE Returned(km.value * 100 + rest.value)

\* parse_chainage without label.upper(): a lower-case prefix stays in place
parse_chainage_no_upper(l) ==
    LET parts == StrSplit(StrRemove(l, "K"), "+")
        km    == PyInt(parts[1])
    IN  IF ~km.ok THEN ValueError
        ELSE IF Len(parts) < 2 THEN ValueError
        ELSE LET rest == PyInt(parts[2])
             IN  IF ~rest.ok THEN ValueError
                 ELSE Returned(km.value * 1000 + rest.value)

\* parse_chainage(label): the distance in whole metres, or ValueError
parse_chainage(l) ==
    LET parts == StrSplit(StrRemove(StrUpper(l), "K"), "+")
        km    == PyInt(parts[1])
    IN  IF ~km.ok THEN ValueError                 \* int(parts[0]): ValueError
        ELSE IF Len(parts) < 2 THEN ValueError    \* parts[1]: IndexError
        ELSE LET rest == PyInt(parts[2])
             IN  IF ~rest.ok THEN ValueError      \* int(parts[1]): ValueError
                 ELSE Returned(km.value * 1000 + rest.value)

NotParsed == [raised |-> FALSE, value |-> 0 - 1]

---------------------------------------------------------------------------
(* shapely geometry used by chainage.py, geometry.py and annotate.py.      *)
(* A Point is <<x, y>>, a LineString the sequence of its vertices.  The    *)
(* alignments of the model are rectilinear (every segment is parallel to   *)
(* an axis) with integer vertices, so that lengths, projections and        *)
(* interpolated points are integers and the arithmetic is exact.           *)
(* A distance between a point and a line is held as its square.            *)

NoPoint == <<0, 0>>
NoLine == <<>>

Grid == (0 .. GridMax) \X (0 .. GridMax)

AxisAligned(a, b) == a # b /\ (a[1] = b[1] \/ a[2] = b[2])

Lines ==
    {l \in UNION {[1 .. n -> Grid] : n \in 2 .. MaxVertices} :
        \A i \in 1 .. (Len(l) - 1) : AxisAligned(l[i], l[i + 1])}

Points == ((0 - 1) .. (GridMax + 1)) \X ((0 - 1) .. (GridMax + 1))

Dot(a, b, p) == (p[1] - a[1]) * (b[1] - a[1]) + (p[2] - a[2]) * (b[2] - a[2])

Dist2(p, q) == (p[1] - q[1]) * (p[1] - q[1]) + (p[2] - q[2]) * (p[2] - q[2])

\* length of a segment parallel to an axis
SegLen(a, b) == Abs(b[1] - a[1]) + Abs(b[2] - a[2])

\* the point of segment a-b at distance t from a
SegPoint(a, b, t) ==
    IF a = b THEN a
    ELSE <<a[1] + (t * (b[1] - a[1])) \div SegLen(a, b),
           a[2] + (t * (b[2] - a[2])) \div SegLen(a, b)>>

RECURSIVE LengthFrom(_, _)
LengthFrom(l, i) ==
    IF i >= Len(l) THEN 0 ELSE SegLen(l[i], l[i + 1]) + LengthFrom(l, i + 1)

\* LineString.length
LineLength(l) == LengthFrom(l, 1)

\* GEOS pointToSegment, squared: the distance from p to segment a-b
SegDist2(a, b, p) ==
    IF a = b THEN Dist2(p, a)
    ELSE IF Dot(a, b, p) <= 0 THEN Dist2(p, a)
    ELSE IF Dot(a, b, p) >= Dist2(a, b) THEN Dist2(p, b)
    ELSE Dist2(p, SegPoint(a, b, Dot(a, b, p) \div SegLen(a, b)))

\* segmentNearestMeasure without the clamp to the segment's ends
SegmentNearestMeasureUnclamped(a, b, p, segmentStartMeasure) ==
    IF a = b THEN segmentStartMeasure
    ELSE segmentStartMeasure + Dot(a, b, p) \div SegLen(a, b)

\* GEOS segmentNearestMeasure: the measure of the point of a-b nearest to p,
\* the projection factor clamped to [0, 1]
SegmentNearestMeasure(a, b, p, segmentStartMeasure) ==
    IF a = b THEN segmentStartMeasure
    ELSE IF Dot(a, b, p) <= 0 THEN segmentStartMeasure
    ELSE IF Dot(a, b, p) <= Dist2(a, b)
         THEN segmentStartMeasure + Dot(a, b, p) \div SegLen(a, b)
         ELSE segmentStartMeasure + SegLen(a, b)

\* GEOS indexOfFromStart: one sweep over the segments, keeping the measure
\* of the first segment that is strictly nearer than all before it
\* (minDistance2 < 0: none yet)
RECURSIVE IndexOfFromStart(_, _, _, _, _, _)
IndexOfFromStart(l, p, i, segmentStartMeasure, minDistance2, ptMeasure) ==
    IF i >= Len(l) THEN ptMeasure
    ELSE LET segDistance2 == SegDist2(l[i], l[i + 1], p)
             segMeasureToPt ==
                 SegmentNearestMeasure(l[i], l[i + 1], p, segmentStartMeasure)
             nearer == minDistance2 < 0 \/ segDistance2 < minDistance2
         IN  IndexOfFromStart(l, p, i + 1,
                 segmentStartMeasure + SegLen(l[i], l[i + 1]),
                 IF nearer THEN segDistance2 ELSE minDistance2,
                 IF nearer THEN segMeasureToPt ELSE ptMeasure)

\* a projection that looks at the first segment only
LineProjectFirstSegment(l, p) == SegmentNearestMeasure(l[1], l[2], p, 0)

\* LineString.project(point): distance along the line to the nearest point
LineProject(l, p) == IndexOfFromStart(l, p, 1, 0, 0 - 1, 0 - 1)

\* GEOS getLocationForward: the point at a length >= 0 along the line
RECURSIVE LocationForward(_, _, _, _)
LocationForward(l, i, totalLength, length) ==
    IF i >= Len(l) THEN l[Len(l)]
    ELSE IF totalLength + SegLen(l[i], l[i + 1]) > length
         THEN SegPoint(l[i], l[i + 1], length - totalLength)
         ELSE LocationForward(l, i + 1,
                  totalLength + SegLen(l[i], l[i + 1]), length)

\* LineString.interpolate(distance): a negative distance counts back from
\* the end; the result is clamped to the ends of the line
LineInterpolate(l, d) ==
    LET forward == IF d < 0 THEN LineLength(l) + d ELSE d
    IN  IF forward <= 0 THEN l[1] ELSE LocationForward(l, 1, 0, forward)

RECURSIVE MinSegDist2(_, _, _)
MinSegDist2(l, p, i) ==
    IF i = Len(l) - 1 THEN SegDist2(l[i], l[i + 1], p)
    ELSE LET here == SegDist2(l[i], l[i + 1], p)
             rest == MinSegDist2(l, p, i + 1)
         IN  IF here <= rest THEN here ELSE rest

\* Point.distance(line), squared
PointLineDist2(p, l) == MinSegDist2(l, p, 1)

---------------------------------------------------------------------------
(* shapely geometries and shapely.ops.linemerge (GEOS LineMerger).  A      *)
(* geometry is its geom_type with the coordinates of a simple geometry or  *)
(* the coordinate lists of the parts of a multi-part one.                  *)

Geometry(type, coords, geoms) ==
    [geom_type |-> type, coords |-> coords, geoms |-> geoms]
LineString(coords) == Geometry("LineString", coords, <<>>)
MultiLineString(parts) == Geometry("MultiLineString", <<>>, parts)
Point(p) == Geometry("Point", <<p>>, <<>>)
Polygon(ring) == Geometry("Polygon", ring, <<>>)

Raised(exception) == [raised |-> TRUE, value |-> exception]

Reverse(s) == [i \in 1 .. Len(s) |-> s[Len(s) + 1 - i]]

\* CoordinateList.add(coords, allowRepeated = false): a coordinate equal to
\* the last one of the list is not added again
RECURSIVE AddNoRepeat(_, _, _)
AddNoRepeat(acc, cs, k) ==
    IF k > Len(cs) THEN acc
    ELSE IF Len(acc) > 0 /\ acc[Len(acc)] = cs[k]
         THEN AddNoRepeat(acc, cs, k + 1)
         ELSE AddNoRepeat(Append(acc, cs[k]), cs, k + 1)

\* LineMerger.add: the parts with repeated points removed, a part left with
\* fewer than two points dropped
MergeEdges(parts) ==
    LET cleaned == [i \in 1 .. Len(parts) |-> AddNoRepeat(<<>>, parts[i], 1)]
    IN  SelectSeq(cleaned, LAMBDA cs : Len(cs) > 1)

\* the coordinates of one part alone
FirstPartCoords(parts, i) == parts[i]

\* [pt for ln in geom.geoms for pt in ln.coords]
RECURSIVE ConcatCoords(_, _)
ConcatCoords(parts, i) ==
    IF i > Len(parts) THEN <<>>
    ELSE parts[i] \o ConcatCoords(parts, i + 1)

\* the two directed edges of edge i of the merge graph: <<i, TRUE>> runs
\* along the part, <<i, FALSE>> against it
NoEdge == <<0, FALSE>>
Sym(de) == <<de[1], ~de[2]>>

\* Coordinate.compareTo: the order of the graph's node map
CoordLess(a, b) == a[1] < b[1] \/ (a[1] = b[1] /\ a[2] < b[2])

\* Quadrant.quadrant(dx, dy): NE 0, NW 1, SW 2, SE 3
Quadrant(dx, dy) ==
    IF dx >= 0 THEN (IF dy >= 0 THEN 0 ELSE 3) ELSE (IF dy >= 0 THEN 1 ELSE 2)

\* DirectedEdge.compareTo for two edges out of the node p0, d and e each
\* <<directed edge, direction point>>: by quadrant, then clockwise before
\* counterclockwise; edges of one direction in the order of the parts (the
\* order of equal edges does not change the merged line)
EdgeLess(p0, d, e) ==
    LET qd == Quadrant(d[2][1] - p0[1], d[2][2] - p0[2])
        qe == Quadrant(e[2][1] - p0[1], e[2][2] - p0[2])
        cross == (e[2][1] - p0[1]) * (d[2][2] - p0[2])
                     - (e[2][2] - p0[2]) * (d[2][1] - p0[1])
    IN  \/ qd < qe
        \/ qd = qe /\ cross < 0
        \/ qd = qe /\ cross = 0 /\ d[1][1] < e[1][1]
        \/ qd = qe /\ cross = 0 /\ d[1][1] = e[1][1] /\ d[1][2] /\ ~e[1][2]

RECURSIVE SortedNodes(_)
SortedNodes(S) ==
    IF S = {} THEN <<>>
    ELSE LET m == CHOOSE x \in S : \A y \in S \ {x} : CoordLess(x, y)
         IN  <<m>> \o SortedNodes(S \ {m})

\* DirectedEdgeStar.getEdges: the directed edges out of p0 sorted, S the
\* set of <<directed edge, direction point>>
RECURSIVE SortedEdges(_, _)
SortedEdges(p0, S) ==
    IF S = {} THEN <<>>
    ELSE LET m == CHOOSE x \in S : \A y \in S \ {x} : EdgeLess(p0, x, y)
         IN  <<m[1]>> \o SortedEdges(p0, S \ {m})

\* LineMergeGraph: the coordinates of every directed edge, the nodes (the
\* ends of the parts) in coordinate order, the sorted directed edges out
\* of every node
LineMergeGraph(ps) ==
    LET des    == (1 .. Len(ps)) \X BOOLEAN
        coords == [de \in des |-> IF de[2] THEN ps[de[1]]
                                            ELSE Reverse(ps[de[1]])]
        nodes  == {coords[de][1] : de \in des}
    IN  [coords |-> coords,
         nodes  |-> SortedNodes(nodes),
         out    |-> [n \in nodes |->
                        SortedEdges(n, {<<de, coords[de][2]>> :
                                          de \in {d \in des : coords[d][1] = n}})]]

\* LineMergeDirectedEdge.getNext: through a node of degree 2 only
GetNext(graph, de) ==
    LET cs  == graph.coords[de]
        out == graph.out[cs[Len(cs)]]
    IN  IF Len(out) # 2 THEN NoEdge
        ELSE IF out[1] = Sym(de) THEN out[2] ELSE out[1]

\* LineMerger.buildEdgeStringStartingWith
RECURSIVE BuildEdgeString(_, _, _, _)
BuildEdgeString(graph, current, start, acc) ==
    LET next == GetNext(graph, current)
    IN  IF next = NoEdge \/ next = start THEN Append(acc, current)
        ELSE BuildEdgeString(graph, next, start, Append(acc, current))

\* the directed edges out of the nodes of one pass of LineMerger.merge:
\* the nodes of degree other than 2 (or, loops = TRUE, of degree 2) in
\* coordinate order, the edges of each in sorted order
RECURSIVE StartEdges(_, _, _)
StartEdges(graph, loops, i) ==
    IF i > Len(graph.nodes) THEN <<>>
    ELSE LET out == graph.out[graph.nodes[i]]
         IN  (IF (Len(out) = 2) = loops THEN out ELSE <<>>)
                 \o StartEdges(graph, loops, i + 1)

\* LineMerger.buildEdgeStringsStartingAt over all nodes: an edge string from
\* every start edge whose edge is not marked yet
RECURSIVE EdgeStrings(_, _, _, _, _)
EdgeStrings(graph, starts, j, marked, strings) ==
    IF j > Len(starts) THEN strings
    ELSE IF starts[j][1] \in marked
         THEN EdgeStrings(graph, starts, j + 1, marked, strings)
         ELSE LET es == BuildEdgeString(graph, starts[j], starts[j], <<>>)
              IN  EdgeStrings(graph, starts, j + 1,
                      marked \cup {es[k][1] : k \in 1 .. Len(es)},
                      Append(strings, es))

\* the coordinates of the parts taken in the order and direction of the
\* directed edges es of the graph, each joint once
RECURSIVE EdgeStringCoords(_, _, _, _)
EdgeStringCoords(graph, es, k, acc) ==
    IF k > Len(es) THEN acc
    ELSE EdgeStringCoords(graph, es, k + 1,
             AddNoRepeat(acc, graph.coords[es[k]], 1))

\* EdgeString.toLineString: the coordinates along the string, reversed
\* when more of its edges run against their part than along it
EdgeStringLine(graph, es) ==
    LET coords  == EdgeStringCoords(graph, es, 1, <<>>)
        forward == Cardinality({k \in 1 .. Len(es) : es[k][2]})
    IN  IF Len(es) - forward > forward THEN Reverse(coords) ELSE coords

\* a merge that chains the parts as they are given
linemerge_in_order(geom) ==
    LineString(AddNoRepeat(<<>>, ConcatCoords(geom.geoms, 1), 1))

\* shapely.ops.linemerge(geom): one LineString when LineMerger finds one
\* merged line, else the MultiLineString of its merged lines
linemerge(geom) ==
    LET graph   == LineMergeGraph(MergeEdges(geom.geoms))
        starts  == StartEdges(graph, FALSE, 1) \o StartEdges(graph, TRUE, 1)
        strings == EdgeStrings(graph, starts, 1, {}, <<>>)
        lines   == [k \in 1 .. Len(strings) |->
                       EdgeStringLine(graph, strings[k])]
    IN  IF Len(lines) = 1 THEN LineString(lines[1])
        ELSE MultiLineString(lines)

---------------------------------------------------------------------------
(* geometry.py *)

\* a to_single_line that takes whatever it is given for a line
to_single_line_unchecked(geom) ==
    IF geom.geom_type = "MultiLineString"
    THEN Returned(LineString(ConcatCoords(geom.geoms, 1)))
    ELSE Returned(LineString(geom.coords))

\* to_single_line(geom)
to_single_line(geom) ==
    IF geom.geom_type = "LineString" THEN Returned(geom)
    ELSE IF geom.geom_type = "MultiLineString"
    THEN LET merged == linemerge(geom)
         IN  IF merged.geom_type = "LineString" THEN Returned(merged)
             ELSE Returned(LineString(ConcatCoords(geom.geoms, 1)))
    ELSE Raised("TypeError")

\* an extract_single_line that takes the last row
extract_single_line_last(gdf) ==
    IF Len(gdf) = 0 THEN Raised("IndexError")
    ELSE to_single_line(gdf[Len(gdf)])

\* extract_single_line(gdf): gdf is the geometry column of the frame
extract_single_line(gdf) ==
    IF Len(gdf) = 0 THEN Raised("IndexError")
    ELSE to_single_line(gdf[1])

\* geom.centroid.  A point is its own centroid; a polygon's is the centroid
\* of its area (the first moments of the ring over three times its doubled
\* area); a line's is the centroid of its length.  Lines are rectilinear,
\* so a segment's length is |dx| + |dy|; the coordinates of the model make
\* every division exact.
RingCross(ring, i) ==
    ring[i][1] * ring[i + 1][2] - ring[i + 1][1] * ring[i][2]

RECURSIVE RingSum(_, _, _)
RingSum(ring, c, i) ==
    IF i >= Len(ring) THEN 0
    ELSE (IF c = 0 THEN 1 ELSE ring[i][c] + ring[i + 1][c]) * RingCross(ring, i)
             + RingSum(ring, c, i + 1)

SegmentLength(cs, i) ==
    Abs(cs[i + 1][1] - cs[i][1]) + Abs(cs[i + 1][2] - cs[i][2])

RECURSIVE LengthSum(_, _, _)
LengthSum(cs, c, i) ==
    IF i >= Len(cs) THEN 0
    ELSE (IF c = 0 THEN 1 ELSE cs[i][c] + cs[i + 1][c]) * SegmentLength(cs, i)
             + LengthSum(cs, c, i + 1)

Centroid(geom) ==
    IF geom.geom_type = "Polygon" /\ RingSum(geom.coords, 0, 1) # 0
    THEN Point(<<RingSum(geom.coords, 1, 1) \div (3 * RingSum(geom.coords, 0, 1)),
                 RingSum(geom.coords, 2, 1) \div (3 * RingSum(geom.coords, 0, 1))>>)
    ELSE IF geom.geom_type \in {"Polygon", "LineString"}
            /\ LengthSum(geom.coords, 0, 1) # 0
    THEN Point(<<LengthSum(geom.coords, 1, 1) \div (2 * LengthSum(geom.coords, 0, 1)),
                 LengthSum(geom.coords, 2, 1) \div (2 * LengthSum(geom.coords, 0, 1))>>)
    ELSE Point(geom.coords[1])

\* get_centroids writing the centroids over the geometries and keeping no
\* geom_ori
get_centroids_overwritten(gdf) ==
    [index |-> gdf.index,
     rows  |-> [i \in 1 .. Len(gdf.rows) |->
                  [gdf.rows[i] EXCEPT !.geometry = Centroid(@)]]]

\* get_centroids(gdf): the frame "result" after its two column assignments
get_centroids(gdf) ==
    [index |-> gdf.index,
     rows  |-> [i \in 1 .. Len(gdf.rows) |->
                  [c \in DOMAIN gdf.rows[i] \cup {"geom_ori"} |->
                      IF c = "geom_ori" THEN gdf.rows[i].geometry
                      ELSE IF c = "geometry" THEN Centroid(gdf.rows[i].geometry)
                      ELSE gdf.rows[i][c]]]]

\* project_point_to_line handing back the first vertex as the projected point
project_point_to_line_first_vertex(p, l) == <<l[1], LineProject(l, p)>>

\* project_point_to_line(point, line) -> (projected, dist_along)
project_point_to_line(p, l) ==
    LET dist_along == LineProject(l, p)
        projected  == LineInterpolate(l, dist_along)
    IN  <<projected, dist_along>>

\* the distance to the first vertex instead of the distance to the line
perpendicular_distance_to_start(p, l) == Dist2(p, l[1])

\* perpendicular_distance(point, line), squared
perpendicular_distance(p, l) == PointLineDist2(p, l)

---------------------------------------------------------------------------
(* chainage.py: chainage of a point, markers along the alignment *)

\* a chainage measured back from the last vertex
chainage_from_end(l, p) ==
    LET dist_m == LineLength(l) - LineProject(l, p)
    IN  <<dist_m, format_chainage(dist_m)>>

\* chainage(line, point) -> (dist_m, label)
chainage(l, p) ==
    LET dist_m == LineProject(l, p)
    IN  <<dist_m, format_chainage(dist_m)>>

\* the loop of generate_chainage_points stopping one marker short
LoopConditionStrict(d, total) == d < total

\* generate_chainage_points: "while distance <= total_length"
LoopCondition(d, total) == d <= total

\* a marker of generate_chainage_points: (point, distance, label)
Marker(l, d) == <<LineInterpolate(l, d), d, format_chainage(d)>>

---------------------------------------------------------------------------
(* annotate.py *)

\* a name value: a str, None or NaN
StrValue(v) == [t |-> "str", v |-> v]
None == [t |-> "None", v |-> ""]
NaN == [t |-> "nan", v |-> ""]
SinNombre == StrValue("sin_nombre")

\* a null test that knows None only
PdIsNaNoneOnly(name) == name.t = "None"

\* pd.isna(name) of a scalar
PdIsNa(name) == name.t \in {"None", "nan"}

\* one pass of the loop of annotate_to_axis: the record of one row
AnnotateRecord(row, axis_line, name_field) ==
    LET pt            == row.geometry
        pp            == project_point_to_line(pt, axis_line)
        point_on_axis == pp[1]
        perp_dist     == perpendicular_distance(pt, axis_line)
        ch            == chainage(axis_line, point_on_axis)
        got           == IF name_field \in DOMAIN row
                         THEN row[name_field] ELSE SinNombre
        name          == IF PdIsNa(got) THEN SinNombre ELSE got
    IN  [nombre        |-> name,
         dist_m        |-> perp_dist,
         abscisa_m     |-> ch[1],
         abscisa_lbl   |-> ch[2],
         x             |-> pt[1],
         y             |-> pt[2],
         x_axis        |-> point_on_axis[1],
         y_axis        |-> point_on_axis[2],
         geometry      |-> <<pt[1], pt[2]>>,
         geometry_axis |-> <<point_on_axis[1], point_on_axis[2]>>]

\* annotate_to_axis with the name of the first row carried into every record
annotate_to_axis_carried(gdf_points, axis_line, name_field) ==
    IF Len(gdf_points) = 0
    THEN [raised |-> TRUE, records |-> <<>>]
    ELSE [raised |-> FALSE,
          records |-> [i \in 1 .. Len(gdf_points) |->
                          [AnnotateRecord(gdf_points[i], axis_line, name_field)
                              EXCEPT !.nombre =
                                  AnnotateRecord(gdf_points[1], axis_line,
                                                 name_field).nombre]]]

\* annotate_to_axis(gdf_points, axis_line, name_field): the rows of the
\* frame returned, in order.  With no rows pd.DataFrame([]) has no columns
\* and "df.x" raises AttributeError.
annotate_to_axis(gdf_points, axis_line, name_field) ==
    IF Len(gdf_points) = 0
    THEN [raised |-> TRUE, records |-> <<>>]
    ELSE [raised |-> FALSE,
          records |-> [i \in 1 .. Len(gdf_points) |->
                          AnnotateRecord(gdf_points[i], axis_line, name_field)]]

\* A data frame is its index labels and its rows, position by position.
\* The index of a new frame: RangeIndex 0 .. n-1
RangeIndex(n) == [i \in 1 .. n |-> i - 1]

\* a frame built with its rows in the reverse order of the records
GeoDataFrameReversed(records) ==
    [index |-> RangeIndex(Len(records)),
     rows  |-> [i \in 1 .. Len(records) |-> records[Len(records) + 1 - i]]]

\* pd.DataFrame(records), gpd.GeoDataFrame(df, ...): one row per record in
\* the order of the list, under a new RangeIndex
GeoDataFrame(records) ==
    [index |-> RangeIndex(Len(records)), rows |-> records]

\* the positions from i on where a boolean mask is True, ascending
RECURSIVE MaskPositions(_, _)
MaskPositions(mask, i) ==
    IF i > Len(mask) THEN <<>>
    ELSE IF mask[i] THEN <<i>> \o MaskPositions(mask, i + 1)
    ELSE MaskPositions(mask, i + 1)

\* the rows of gdf at the positions pos, each with its index label
Take(gdf, pos) ==
    [index |-> [k \in 1 .. Len(pos) |-> gdf.index[pos[k]]],
     rows  |-> [k \in 1 .. Len(pos) |-> gdf.rows[pos[k]]]]

\* the comparison of filter_by_radius with the boundary left out
WithinRadiusStrict(dist_m, r) == r > 0 /\ dist_m < r * r

\* gdf[distance_col] <= radius_m for one row; dist_m is held squared and is
\* never negative
WithinRadius(dist_m, r) == r >= 0 /\ dist_m <= r * r

\* gdf[gdf[distance_col] <= radius_m]
filter_by_radius(gdf, r, distance_col) ==
    Take(gdf, MaskPositions([i \in 1 .. Len(gdf.rows) |->
                                WithinRadius(gdf.rows[i][distance_col], r)], 1))

\* a copy that hands back a frame already alive when the contents are equal
CopyShared(fs, gdf) ==
    IF \E i \in 1 .. Len(fs) : fs[i] = gdf
    THEN [frames |-> fs, ref |-> CHOOSE i \in 1 .. Len(fs) : fs[i] = gdf]
    ELSE [frames |-> Append(fs, gdf), ref |-> Len(fs) + 1]

\* .copy(): a new frame object with the same contents
Copy(fs, gdf) == [frames |-> Append(fs, gdf), ref |-> Len(fs) + 1]

\* the orders in which n rows can be arranged
Orderings(n) ==
    {f \in [1 .. n -> 1 .. n] : \A i, j \in 1 .. n : f[i] = f[j] => i = j}

\* gdf.sort_values(col): kind="quicksort" by default, which keeps no order
\* among rows of equal key, so every ascending arrangement is an outcome
SortValues(gdf, col) ==
    {Take(gdf, f) :
        f \in {g \in Orderings(Len(gdf.rows)) :
                  \A i \in 1 .. (Len(gdf.rows) - 1) :
                      gdf.rows[g[i]][col] <= gdf.rows[g[i + 1]][col]}}

\* a frame left with the index labels it had
ResetIndexSkipped(gdf) == gdf

\* .reset_index(drop=True)
ResetIndex(gdf) == [gdf EXCEPT !.index = RangeIndex(Len(gdf.rows))]

\* sort_by_chainage(gdf, chainage_col): the frames the call can return
sort_by_chainage(gdf, chainage_col) ==
    {ResetIndex(sorted) : sorted \in SortValues(gdf, chainage_col)}

---------------------------------------------------------------------------
(* The codec as a state machine: a caller formats a distance and parses    *)
(* the label back, or parses a label of its own.                           *)

NoGeometry ==
    /\ line = NoLine
    /\ point = NoPoint
    /\ ret = <<>>

NoMarkers ==
    /\ interval_m = 0
    /\ start_m = 0
    /\ total_length = 0
    /\ distance = 0
    /\ points = <<>>

\* DEFAULT_CHAINAGE.format_template: "K{km}+{rest:03d}", a format string
\* as its literal characters and its replacement fields
DefaultTemplate == <<"K", "{km}", "+", "{rest:03d}">>

NoCodec ==
    /\ distance_m = NoDistance
    /\ label = <<>>
    /\ template = DefaultTemplate
    /\ parsed = NotParsed

NoFrames ==
    /\ frames = <<>>
    /\ arg = 0
    /\ res = 0
    /\ radius_m = 0

NoGeom == Geometry("", <<>>, <<>>)

NoNormalizer ==
    /\ line_geom = NoGeom
    /\ axis_gdf = <<>>

\* format strings a caller can pass: the default, the default behind another
\* prefix, one without the zero padding
Templates ==
    {DefaultTemplate,
     <<"P", "K", "{km}", "+", "{rest:03d}">>,
     <<"{km}", "+", "{rest}">>}

InitCodec ==
    /\ parsed = NotParsed
    /\ \/ /\ pc = "format_call"
          /\ distance_m \in Distances
          /\ template \in Templates
          /\ label = <<>>
       \/ /\ pc = "parse_call"
          /\ distance_m = NoDistance
          /\ template = DefaultTemplate
          /\ label \in Labels
    /\ NoGeometry
    /\ NoMarkers
    /\ NoFrames
    /\ NoNormalizer

\* format_chainage(distance_m, template): the body never reads template
FormatChainage ==
    /\ pc = "format_call"
    /\ label' = format_chainage(distance_m)
    /\ pc' = "formatted"
    /\ UNCHANGED <<distance_m, template, parsed, line, point, ret, markerVars,
                   frameVars, normalizerVars>>

ParseChainage ==
    /\ pc \in {"formatted", "parse_call"}
    /\ parsed' = parse_chainage(label)
    /\ pc' = "parsed"
    /\ UNCHANGED <<distance_m, label, template, line, point, ret, markerVars,
                   frameVars, normalizerVars>>

NextCodec == FormatChainage \/ ParseChainage

SpecCodec == InitCodec /\ [][NextCodec]_vars

---------------------------------------------------------------------------
(* generate_chainage_points as a state machine: the call, each pass of    *)
(* its while loop, the return.                                             *)

Intervals == (0 - 1) .. MaxInterval
Starts == 0 .. MaxStart

\* alignments of the marker runs: first vertex at the origin
MarkerLines == {l \in Lines : l[1] = <<0, 0>>}

\* passes of the loop the model follows; a call with interval_m > 0 makes
\* at most LineLength + 1 of them
MaxMarkers == (MaxVertices - 1) * GridMax + 2

InitMarkers ==
    /\ pc = "generate_call"
    /\ line \in MarkerLines
    /\ interval_m \in Intervals
    /\ start_m \in Starts
    /\ total_length = 0
    /\ distance = 0
    /\ points = <<>>
    /\ point = NoPoint
    /\ ret = <<>>
    /\ NoCodec
    /\ NoFrames
    /\ NoNormalizer

\* total_length = line.length; points = []; distance = start_m
GenerateEnter ==
    /\ pc = "generate_call"
    /\ total_length' = LineLength(line)
    /\ points' = <<>>
    /\ distance' = start_m
    /\ pc' = "generate_loop"
    /\ UNCHANGED <<line, point, interval_m, start_m, ret, codecVars,
                   frameVars, normalizerVars>>

\* one pass of the body of the while loop
GenerateIterate ==
    /\ pc = "generate_loop"
    /\ LoopCondition(distance, total_length)
    /\ Len(points) < MaxMarkers
    /\ points' = Append(points, Marker(line, distance))
    /\ distance' = distance + interval_m
    /\ UNCHANGED <<pc, line, point, interval_m, start_m, total_length, ret,
                   codecVars, frameVars, normalizerVars>>

\* return points
GenerateReturn ==
    /\ pc = "generate_loop"
    /\ ~LoopCondition(distance, total_length)
    /\ ret' = points
    /\ pc' = "generate_done"
    /\ UNCHANGED <<line, point, markerVars, codecVars, frameVars,
                   normalizerVars>>

NextMarkers == GenerateEnter \/ GenerateIterate \/ GenerateReturn

SpecMarkers == InitMarkers /\ [][NextMarkers]_vars

---------------------------------------------------------------------------
(* Projection of a point on the alignment: chainage, project_point_to_line, *)
(* perpendicular_distance and annotate_to_axis on a one-row frame, each     *)
(* called on the same alignment and point.                                  *)

InitProjection ==
    /\ pc = "geometry_call"
    /\ line \in Lines
    /\ point \in Points
    /\ ret = <<>>
    /\ NoMarkers
    /\ NoCodec
    /\ NoFrames
    /\ NoNormalizer

Chainage ==
    /\ pc = "geometry_call"
    /\ ret' = chainage(line, point)
    /\ pc' = "chainage_done"
    /\ UNCHANGED <<line, point, markerVars, codecVars, frameVars,
                   normalizerVars>>

ProjectPointToLine ==
    /\ pc = "geometry_call"
    /\ ret' = project_point_to_line(point, line)
    /\ pc' = "project_done"
    /\ UNCHANGED <<line, point, markerVars, codecVars, frameVars,
                   normalizerVars>>

PerpendicularDistance ==
    /\ pc = "geometry_call"
    /\ ret' = perpendicular_distance(point, line)
    /\ pc' = "perpendicular_done"
    /\ UNCHANGED <<line, point, markerVars, codecVars, frameVars,
                   normalizerVars>>

AnnotateToAxis ==
    /\ pc = "geometry_call"
    /\ ret' = annotate_to_axis(<<[geometry |-> point]>>, line, "Name")
    /\ pc' = "annotate_done"
    /\ UNCHANGED <<line, point, markerVars, codecVars, frameVars,
                   normalizerVars>>

NextProjection ==
    \/ Chainage
    \/ ProjectPointToLine
    \/ PerpendicularDistance
    \/ AnnotateToAxis

SpecProjection == InitProjection /\ [][NextProjection]_vars

---------------------------------------------------------------------------
(* The annotation pipeline of a caller: annotate_to_axis on a frame of     *)
(* features, then filter_by_radius and sort_by_chainage on what came back, *)
(* and a caller that writes into the filtered frame.                       *)

AxisLines ==
    {<<(<<0, 0>>), (<<GridMax, 0>>)>>,
     <<(<<0, 0>>), (<<GridMax, 0>>), (<<GridMax, GridMax>>)>>}

FeaturePoints == {<<1, 0 - 1>>, <<1, 1>>, <<0 - 1, 0>>, <<GridMax, 2>>}

NameValues == {None, NaN, StrValue(""), StrValue("Valid")}

\* rows of a frame with a Name column, rows of a frame without one
NamedFeatures ==
    {[geometry |-> p, Name |-> v] : p \in FeaturePoints, v \in NameValues}
UnnamedFeatures == {[geometry |-> p] : p \in FeaturePoints}

\* the names of test_annotate_to_axis_null_names on three features whose
\* chainages are out of order as in test_sort_by_chainage_basic
TestFrames ==
    {GeoDataFrame(<<[geometry |-> <<GridMax, 2>>, Name |-> None],
                    [geometry |-> <<0 - 1, 0>>, Name |-> NaN],
                    [geometry |-> <<1, 1>>, Name |-> StrValue("Valid")]>>)}

FeatureFrames ==
    {GeoDataFrame(rows) :
        rows \in UNION {[1 .. n -> NamedFeatures] \cup [1 .. n -> UnnamedFeatures] :
                          n \in 0 .. MaxFeatures}}
        \cup TestFrames

Radii == (0 - 1) .. MaxRadius

InitAnnotate ==
    /\ pc = "annotate_call"
    /\ line \in AxisLines
    /\ \E gdf_points \in FeatureFrames : frames = <<gdf_points>>
    /\ arg = 0
    /\ res = 0
    /\ radius_m = 0
    /\ point = NoPoint
    /\ ret = <<>>
    /\ NoMarkers
    /\ NoCodec
    /\ NoNormalizer

\* annotate_to_axis writing its records into the frame it was given
AnnotateFeaturesInPlace ==
    /\ pc = "annotate_call"
    /\ arg' = 1
    /\ LET out == annotate_to_axis(frames[1].rows, line, "Name")
       IN  IF out.raised
           THEN /\ pc' = "annotate_raised"
                /\ UNCHANGED <<frames, res>>
           ELSE /\ pc' = "annotated"
                /\ frames' = <<GeoDataFrame(out.records)>>
                /\ res' = 1
    /\ UNCHANGED <<line, point, ret, radius_m, markerVars, codecVars,
                   normalizerVars>>

\* annotate_to_axis(gdf_points, axis_line, name_field="Name")
AnnotateFeatures ==
    /\ pc = "annotate_call"
    /\ arg' = 1
    /\ LET out == annotate_to_axis(frames[1].rows, line, "Name")
       IN  IF out.raised
           THEN /\ pc' = "annotate_raised"
                /\ UNCHANGED <<frames, res>>
           ELSE /\ pc' = "annotated"
                /\ frames' = Append(frames, GeoDataFrame(out.records))
                /\ res' = Len(frames) + 1
    /\ UNCHANGED <<line, point, ret, radius_m, markerVars, codecVars,
                   normalizerVars>>

\* filtered = filter_by_radius(annotated, radius_m)
FilterByRadius ==
    /\ pc = "annotated"
    /\ \E r \in Radii :
          LET out == Copy(frames, filter_by_radius(frames[res], r, "dist_m"))
          IN  /\ radius_m' = r
              /\ frames' = out.frames
              /\ res' = out.ref
    /\ arg' = res
    /\ pc' = "filtered"
    /\ UNCHANGED <<line, point, ret, markerVars, codecVars,
                   normalizerVars>>

\* sorted_gdf = sort_by_chainage(gdf) of the annotated or the filtered frame
SortByChainage ==
    /\ pc \in {"annotated", "filtered"}
    /\ \E out \in sort_by_chainage(frames[res], "abscisa_m") :
          frames' = Append(frames, out)
    /\ arg' = res
    /\ res' = Len(frames) + 1
    /\ pc' = "sorted"
    /\ UNCHANGED <<line, point, ret, radius_m, markerVars, codecVars,
                   normalizerVars>>

\* filtered.loc[filtered.index[0], "nombre"] = "Modified"
ModifyFiltered ==
    /\ pc = "filtered"
    /\ Len(frames[res].rows) > 0
    /\ frames' = [frames EXCEPT ![res].rows[1].nombre = StrValue("Modified")]
    /\ pc' = "modified"
    /\ UNCHANGED <<line, point, ret, arg, res, radius_m, markerVars, codecVars,
                   normalizerVars>>

NextAnnotate ==
    \/ AnnotateFeatures
    \/ FilterByRadius
    \/ SortByChainage
    \/ ModifyFiltered

SpecAnnotate == InitAnnotate /\ [][NextAnnotate]_vars

---------------------------------------------------------------------------
(* The line normalizer: to_single_line on a geometry, extract_single_line  *)
(* on the geometry column of a frame.                                      *)

NormalizerPoints == {<<0, 0>>, <<1, 0>>, <<1, 1>>, <<0, 1>>}

\* the coordinate lists of n vertices, no vertex repeated at once
CoordLists(n) ==
    {cs \in [1 .. n -> NormalizerPoints] :
        \A i \in 1 .. (n - 1) : cs[i] # cs[i + 1]}

\* geometries of tests/test_core.py: TestGeometry.test_to_single_line_*
TestGeometries ==
    {LineString(<<(<<0, 0>>), (<<1, 1>>), (<<2, 0>>)>>),
     MultiLineString(<<(<<(<<0, 0>>), (<<1, 1>>)>>),
                       (<<(<<1, 1>>), (<<2, 0>>)>>)>>),
     MultiLineString(<<(<<(<<0, 0>>), (<<1, 1>>)>>),
                       (<<(<<2, 2>>), (<<3, 3>>)>>)>>),
     Point(<<0, 0>>),
     Polygon(<<(<<0, 0>>), (<<1, 0>>), (<<1, 1>>), (<<0, 0>>)>>)}

\* multi-part lines of up to MaxParts two-vertex parts, and of two parts of
\* two or three vertices
MultiLineStrings ==
    {MultiLineString(ps) :
        ps \in UNION {[1 .. n -> CoordLists(2)] : n \in 1 .. MaxParts}}
    \cup {MultiLineString(ps) :
            ps \in [1 .. 2 -> CoordLists(2) \cup CoordLists(3)]}

Geometries ==
    MultiLineStrings
        \cup {LineString(cs) : cs \in CoordLists(2) \cup CoordLists(3)}
        \cup {Point(p) : p \in NormalizerPoints}
        \cup TestGeometries

\* geometry columns of up to MaxFeatures rows
GeometryColumns ==
    UNION {[1 .. n -> TestGeometries] : n \in 0 .. MaxFeatures}

InitNormalizer ==
    /\ \/ /\ pc = "to_single_line_call"
          /\ line_geom \in Geometries
          /\ axis_gdf = <<>>
       \/ /\ pc = "extract_single_line_call"
          /\ line_geom = NoGeom
          /\ axis_gdf \in GeometryColumns
    /\ NoGeometry
    /\ NoMarkers
    /\ NoCodec
    /\ NoFrames

ToSingleLine ==
    /\ pc = "to_single_line_call"
    /\ ret' = to_single_line(line_geom)
    /\ pc' = "to_single_line_done"
    /\ UNCHANGED <<line, point, markerVars, codecVars, frameVars,
                   normalizerVars>>

ExtractSingleLine ==
    /\ pc = "extract_single_line_call"
    /\ ret' = extract_single_line(axis_gdf)
    /\ pc' = "extract_single_line_done"
    /\ UNCHANGED <<line, point, markerVars, codecVars, frameVars,
                   normalizerVars>>

NextNormalizer == ToSingleLine \/ ExtractSingleLine

SpecNormalizer == InitNormalizer /\ [][NextNormalizer]_vars

---------------------------------------------------------------------------
(* get_centroids on a frame of features, and a caller that writes into the *)
(* frame it got back.                                                      *)

\* the polygons of sample_polygons_gdf at a fiftieth of their size, a
\* triangle and an L-shaped polygon, two lines, two points
CentroidGeometries ==
    {Polygon(<<(<<0, 0>>), (<<2, 0>>), (<<2, 2>>), (<<0, 2>>), (<<0, 0>>)>>),
     Polygon(<<(<<10, 10>>), (<<12, 10>>), (<<12, 12>>), (<<10, 12>>),
               (<<10, 10>>)>>),
     Polygon(<<(<<0, 0>>), (<<3, 0>>), (<<0, 3>>), (<<0, 0>>)>>),
     Polygon(<<(<<0, 0>>), (<<12, 0>>), (<<12, 6>>), (<<6, 6>>), (<<6, 12>>),
               (<<0, 12>>), (<<0, 0>>)>>),
     LineString(<<(<<0, 0>>), (<<4, 0>>)>>),
     LineString(<<(<<0, 0>>), (<<4, 0>>), (<<4, 4>>)>>),
     Point(<<2, 2>>),
     Point(<<4, 4>>)}

ZoneNames == {StrValue("Zone A"), StrValue("Zone B")}

CentroidFrames ==
    {GeoDataFrame(rows) :
        rows \in UNION {[1 .. n -> [geometry : CentroidGeometries,
                                    Name : ZoneNames]] :
                          n \in 0 .. MaxFeatures}}

InitCentroids ==
    /\ pc = "centroids_call"
    /\ \E gdf \in CentroidFrames : frames = <<gdf>>
    /\ arg = 0
    /\ res = 0
    /\ radius_m = 0
    /\ NoGeometry
    /\ NoMarkers
    /\ NoCodec
    /\ NoNormalizer

\* result = gdf.copy(); result["geom_ori"] = ...; result["geometry"] = ...
GetCentroids ==
    /\ pc = "centroids_call"
    /\ LET out == Copy(frames, get_centroids(frames[1]))
       IN  /\ frames' = out.frames
           /\ res' = out.ref
    /\ arg' = 1
    /\ pc' = "centroids_done"
    /\ UNCHANGED <<line, point, ret, radius_m, markerVars, codecVars,
                   normalizerVars>>

\* result["Name"] = ["Modified A", "Modified B"]
ModifyCentroids ==
    /\ pc = "centroids_done"
    /\ frames' = [frames EXCEPT ![res].rows =
                     [i \in 1 .. Len(@) |->
                         [@[i] EXCEPT !.Name = StrValue("Modified")]]]
    /\ pc' = "centroids_modified"
    /\ UNCHANGED <<line, point, ret, arg, res, radius_m, markerVars,
                   codecVars, normalizerVars>>

NextCentroids == GetCentroids \/ ModifyCentroids

SpecCentroids == InitCentroids /\ [][NextCentroids]_vars

---------------------------------------------------------------------------
(* All components *)

Init ==
    InitCodec \/ InitMarkers \/ InitProjection \/ InitAnnotate
        \/ InitNormalizer \/ InitCentroids

Next ==
    \/ FormatChainage
    \/ ParseChainage
    \/ GenerateEnter
    \/ GenerateIterate
    \/ GenerateReturn
    \/ Chainage
    \/ ProjectPointToLine
    \/ PerpendicularDistance
    \/ AnnotateToAxis
    \/ AnnotateFeatures
    \/ FilterByRadius
    \/ SortByChainage
    \/ ModifyFiltered
    \/ ToSingleLine
    \/ ExtractSingleLine
    \/ GetCentroids
    \/ ModifyCentroids

Spec == Init /\ [][Next]_vars

---------------------------------------------------------------------------
(* Claims about the codec, checked under SpecCodec *)

PlusPositions(l) == {i \in 1 .. Len(l) : l[i] = "+"}

\* "K{km}+{rest}" or "k{km}+{rest}", km and rest one or more decimal digits
WellFormed(l) ==
    /\ Len(l) >= 4
    /\ l[1] \in {"K", "k"}
    /\ Cardinality(PlusPositions(l)) = 1
    /\ LET p == CHOOSE i \in PlusPositions(l) : TRUE
       IN  /\ AllDigits(SubSeq(l, 2, p - 1))
           /\ AllDigits(SubSeq(l, p + 1, Len(l)))

KmDigits(l) == SubSeq(l, 2, (CHOOSE i \in PlusPositions(l) : TRUE) - 1)
RestDigits(l) == SubSeq(l, (CHOOSE i \in PlusPositions(l) : TRUE) + 1, Len(l))

\* C1 (as claimed): format_chainage rounds to the nearest whole metre with
\* ties rounding up: a fractional part of exactly .5 gives the label of
\* floor(d)+1, whether floor(d) is even or odd, and a fractional part below
\* .5 gives the label of floor(d).
C1_TiesRoundUp ==
    pc = "formatted" =>
        LET fl == distance_m \div Scale
            r  == distance_m % Scale
        IN  /\ (2 * r = Scale => label = format_chainage((fl + 1) * Scale))
            /\ (2 * r < Scale => label = format_chainage(fl * Scale))

\* C2: for a whole-metre distance r the label is "K", the decimal numeral
\* of floor(r/1000) without padding, "+", and r mod 1000 written with
\* exactly three digits, so that km*1000 + rest = r.
C2_LabelShape ==
    (pc = "formatted" /\ distance_m % Scale = 0) =>
        LET r == distance_m \div Scale
        IN  /\ WellFormed(label)
            /\ label[1] = "K"
            /\ LET km == KmDigits(label)
                   rest == RestDigits(label)
               IN  /\ (Len(km) > 1 => km[1] # "0")
                   /\ DigitsValue(km) = r \div 1000
                   /\ Len(rest) = 3
                   /\ DigitsValue(rest) = r % 1000
                   /\ DigitsValue(rest) \in 0 .. 999
                   /\ DigitsValue(km) * 1000 + DigitsValue(rest) = r

C2_Witness ==
    /\ pc = "formatted"
    /\ distance_m = 150000 * Scale
    /\ label = <<"K", "1", "5", "0", "+", "0", "0", "0">>

C4_PrefixRequired ==
    (pc = "parsed" /\ distance_m = NoDistance) =>
        ((label = <<>> \/ label[1] \notin {"K", "k"}) => parsed.raised)

\* C5 (as claimed): parse_chainage raises ValueError whenever splitting the
\* label on "+" does not yield exactly two parts.
C5_ExactlyTwoParts ==
    (pc = "parsed" /\ distance_m = NoDistance) =>
        (Len(StrSplit(label, "+")) # 2 => parsed.raised)

StripPrefix(l) == IF l # <<>> /\ l[1] \in {"K", "k"} THEN Tail(l) ELSE l

\* C6 (as claimed): parse_chainage raises ValueError when the label has no
\* "+", or when the km part or the metres part (the text either side of the
\* "+", the leading K aside) is not an integer numeral.
C6_PartsNumeric ==
    (pc = "parsed" /\ distance_m = NoDistance) =>
        LET parts == StrSplit(StripPrefix(label), "+")
        IN  (\/ Len(parts) = 1
             \/ ~PyInt(parts[1]).ok
             \/ (Len(parts) >= 2 /\ ~PyInt(parts[2]).ok)) => parsed.raised

SwapPrefixCase(l) ==
    [i \in 1 .. Len(l) |->
        IF i = 1 THEN (IF l[1] = "K" THEN "k" ELSE "K") ELSE l[i]]

\* C7: a well-formed label "K{km}+{rest}" parses to km*1000 + rest, and to
\* the same distance with the prefix in the other case.
C7_ParseValue ==
    (pc = "parsed" /\ distance_m = NoDistance /\ WellFormed(label)) =>
        /\ parsed = Returned(DigitsValue(KmDigits(label)) * 1000
                                + DigitsValue(RestDigits(label)))
        /\ parse_chainage(SwapPrefixCase(label)) = parsed

C7_Witness ==
    /\ pc = "parsed"
    /\ label = <<"k", "5", "+", "2", "5", "0">>
    /\ parsed = Returned(5250)

---------------------------------------------------------------------------
(* Claims about the markers, checked under SpecMarkers *)

\* the point of the alignment at arc length s from its first vertex,
\* 0 <= s <= length
RECURSIVE ArcPointFrom(_, _, _)
ArcPointFrom(l, i, s) ==
    IF i = Len(l) - 1 \/ s <= SegLen(l[i], l[i + 1])
    THEN SegPoint(l[i], l[i + 1], s)
    ELSE ArcPointFrom(l, i + 1, s - SegLen(l[i], l[i + 1]))

ArcPoint(l, s) == ArcPointFrom(l, 1, s)

\* C8: with interval_m > 0 and start_m >= 0 the call returns, in increasing
\* order, exactly the markers (alignment point at d, d, label of d) for
\* d = start_m + k*interval_m <= L: floor((L - start_m)/interval_m) + 1 of
\* them when start_m <= L and none otherwise; the last one lies at L only
\* when L - start_m is a multiple of interval_m, and no marker is added at
\* the end of the alignment otherwise.
C8_Markers ==
    (pc = "generate_done" /\ interval_m > 0 /\ start_m >= 0) =>
        LET L == LineLength(line)
            n == IF start_m <= L THEN (L - start_m) \div interval_m + 1 ELSE 0
        IN  /\ Len(ret) = n
            /\ \A k \in 1 .. n :
                   LET d == start_m + (k - 1) * interval_m
                   IN  /\ d <= L
                       /\ ret[k] = <<ArcPoint(line, d), d, format_chainage(d)>>
            /\ start_m + n * interval_m > L
            /\ (n > 0 => (ret[n][2] = L <=> (L - start_m) % interval_m = 0))

C8_Witness ==
    /\ pc = "generate_done"
    /\ line = <<(<<0, 0>>), (<<2, 0>>), (<<2, 1>>)>>
    /\ interval_m = 2
    /\ start_m = 0
    /\ Len(ret) = 2
    /\ ret[2][1] = <<2, 0>>
    /\ ret[2][2] = 2

\* C9 (as claimed): with interval_m <= 0 the call fails before it emits any
\* marker.
C9_FailsFast == interval_m <= 0 => Len(points) = 0

---------------------------------------------------------------------------
(* Claims about the projection, checked under SpecProjection *)

\* the point of the alignment at arc length s0 is nearer to p than every
\* other point of the alignment (the nearest point of a segment to a point
\* with integer coordinates lies at an integer arc length)
OnlyNearest(l, p, s0) ==
    LET here == Dist2(p, ArcPoint(l, s0))
    IN  \A s \in 0 .. LineLength(l) :
            s # s0 => Dist2(p, ArcPoint(l, s)) > here

\* the along-line distances in what the last call returned
ReturnedDistances ==
    IF pc = "chainage_done" THEN {ret[1]}
    ELSE IF pc = "project_done" THEN {ret[2]}
    ELSE IF pc = "annotate_done"
         THEN {ret.records[i].abscisa_m : i \in 1 .. Len(ret.records)}
         ELSE {}

\* C10: the along-line distance returned by chainage, by
\* project_point_to_line and in every annotated record's abscisa_m lies in
\* [0, alignment length]; it is 0 when the first vertex is the alignment's
\* nearest point and the alignment length when the last vertex is.
C10_DistanceClamped ==
    \A d \in ReturnedDistances :
        LET L == LineLength(line)
        IN  /\ d \in 0 .. L
            /\ (OnlyNearest(line, point, 0) => d = 0)
            /\ (OnlyNearest(line, point, L) => d = L)

C10_Witness ==
    /\ pc = "annotate_done"
    /\ line = <<(<<0, 0>>), (<<2, 0>>)>>
    /\ point = <<3, 0>>
    /\ OnlyNearest(line, point, 2)
    /\ ret.records[1].abscisa_m = 2

\* C11: project_point_to_line(point, line) returns (P, d) where no point of
\* the alignment is nearer to point than P, and d is the arc length from the
\* first vertex at which the alignment passes through P.
C11_NearestPoint ==
    pc = "project_done" =>
        LET P == ret[1]
            d == ret[2]
        IN  /\ d \in 0 .. LineLength(line)
            /\ ArcPoint(line, d) = P
            /\ \A s \in 0 .. LineLength(line) :
                   Dist2(point, P) <= Dist2(point, ArcPoint(line, s))

C11_Witness ==
    /\ pc = "project_done"
    /\ line = <<(<<0, 0>>), (<<2, 0>>), (<<2, 2>>)>>
    /\ point = <<3, 1>>
    /\ ret = <<(<<2, 1>>), 3>>

\* the alignment lies on one line parallel to an axis
Straight(l) ==
    \/ \A i \in 1 .. Len(l) : l[i][2] = l[1][2]
    \/ \A i \in 1 .. Len(l) : l[i][1] = l[1][1]

\* the mirror image of p across the line that carries a straight alignment
Mirror(l, p) ==
    IF \A i \in 1 .. Len(l) : l[i][2] = l[1][2]
    THEN <<p[1], 2 * l[1][2] - p[2]>>
    ELSE <<2 * l[1][1] - p[1], p[2]>>

OnAlignment(l, p) == \E s \in 0 .. LineLength(l) : ArcPoint(l, s) = p

\* C12: perpendicular_distance(point, line) is unsigned and is the distance
\* from point to the projected point of project_point_to_line: it is >= 0,
\* it is 0 exactly when the point lies on the alignment, and a point and its
\* mirror image across a straight alignment are at the same distance.
C12_UnsignedOffset ==
    pc = "perpendicular_done" =>
        /\ ret >= 0
        /\ ret = Dist2(point, project_point_to_line(point, line)[1])
        /\ (ret = 0 <=> OnAlignment(line, point))
        /\ (Straight(line) =>
               perpendicular_distance(Mirror(line, point), line) = ret)

C12_Witness ==
    /\ pc = "perpendicular_done"
    /\ line = <<(<<0, 1>>), (<<2, 1>>)>>
    /\ point = <<1, 2>>
    /\ Mirror(line, point) = <<1, 0>>
    /\ ret = 1

\* C14: in every record produced by annotate_to_axis abscisa_lbl is
\* format_chainage(abscisa_m), and (x_axis, y_axis) is the point of the
\* alignment at arc length abscisa_m from the first vertex.
C14_RecordConsistent ==
    pc = "annotate_done" =>
        \A i \in 1 .. Len(ret.records) :
            LET r == ret.records[i]
            IN  /\ r.abscisa_lbl = format_chainage(r.abscisa_m)
                /\ <<r.x_axis, r.y_axis>> = ArcPoint(line, r.abscisa_m)

C14_Witness ==
    /\ pc = "annotate_done"
    /\ line = <<(<<0, 0>>), (<<2, 0>>), (<<2, 2>>)>>
    /\ point = <<3, 1>>
    /\ Len(ret.records) = 1
    /\ ret.records[1].abscisa_m = 3
    /\ ret.records[1].abscisa_lbl = <<"K", "0", "+", "0", "0", "1">>
    /\ ret.records[1].x_axis = 2
    /\ ret.records[1].y_axis = 1

---------------------------------------------------------------------------
(* Claims about the annotation pipeline, checked under SpecAnnotate *)

\* C13: annotate_to_axis returns exactly one record per input feature, in
\* input order (record i describes feature i), and each record's x, y are
\* the coordinates of the feature's point unchanged.  (A frame with no
\* feature is the case of C30.)
C13_OneRecordPerFeature ==
    /\ (Len(frames[1].rows) >= 1 => pc # "annotate_raised")
    /\ (pc = "annotated" =>
           LET gdf_points == frames[arg].rows
               records    == frames[res].rows
           IN  /\ Len(records) = Len(gdf_points)
               /\ \A i \in 1 .. Len(gdf_points) :
                      /\ records[i].x = gdf_points[i].geometry[1]
                      /\ records[i].y = gdf_points[i].geometry[2])

C13_Witness ==
    /\ pc = "annotated"
    /\ frames[arg] \in TestFrames
    /\ Len(frames[res].rows) = 3
    /\ frames[res].rows[1].x = GridMax
    /\ frames[res].rows[2].x = 0 - 1
    /\ frames[res].rows[3].x = 1

\* C15: annotate_to_axis sets a record's name to "sin_nombre" whenever the
\* name field is absent from the feature or its value is None or NaN, and
\* otherwise to the feature's own name value.
C15_NameFallback ==
    pc = "annotated" =>
        \A i \in 1 .. Len(frames[arg].rows) :
            LET row    == frames[arg].rows[i]
                nombre == frames[res].rows[i].nombre
            IN  IF "Name" \notin DOMAIN row \/ row.Name \in {None, NaN}
                THEN nombre = StrValue("sin_nombre")
                ELSE nombre = row.Name

C15_Witness ==
    /\ pc = "annotated"
    /\ frames[arg] \in TestFrames
    /\ [i \in 1 .. 3 |-> frames[arg].rows[i].Name]
           = <<None, NaN, StrValue("Valid")>>
    /\ [i \in 1 .. 3 |-> frames[res].rows[i].nombre]
           = <<StrValue("sin_nombre"), StrValue("sin_nombre"), StrValue("Valid")>>

\* C16 (as claimed): the name of every record produced by annotate_to_axis
\* is a non-empty string, whatever the feature's name value (absent, null or
\* the empty string).
C16_NameNeverEmpty ==
    pc = "annotated" =>
        \A i \in 1 .. Len(frames[res].rows) :
            /\ frames[res].rows[i].nombre.t = "str"
            /\ frames[res].rows[i].nombre.v # ""

\* the positions of the rows of gdf whose offset is at most r (offsets are
\* held squared)
WithinOffset(gdf, r) ==
    {i \in 1 .. Len(gdf.rows) : r >= 0 /\ gdf.rows[i].dist_m <= r * r}

\* C17: filter_by_radius(records, r) returns exactly the records whose
\* offset dist_m is <= r, the boundary included, in their original relative
\* order and with their fields unchanged.
C17_FilterExact ==
    pc = "filtered" =>
        LET gdf  == frames[arg]
            out  == frames[res]
            keep == WithinOffset(gdf, radius_m)
        IN  /\ Len(out.rows) = Cardinality(keep)
            /\ \E f \in [1 .. Len(out.rows) -> keep] :
                   /\ \A k \in 1 .. (Len(out.rows) - 1) : f[k] < f[k + 1]
                   /\ \A k \in 1 .. Len(out.rows) :
                          /\ out.rows[k] = gdf.rows[f[k]]
                          /\ out.index[k] = gdf.index[f[k]]

C17_Witness ==
    /\ pc = "filtered"
    /\ frames[1] \in TestFrames
    /\ line = <<(<<0, 0>>), (<<GridMax, 0>>)>>
    /\ radius_m = 1
    /\ [i \in 1 .. 3 |-> frames[arg].rows[i].dist_m] = <<4, 1, 1>>
    /\ Len(frames[res].rows) = 2
    /\ frames[res].rows = <<frames[arg].rows[2], frames[arg].rows[3]>>

\* C18: filter_by_radius returns an independent copy: the call leaves its
\* input frame unchanged and returns another frame than its input, and a
\* later modification of the returned frame leaves the input unchanged.
C18_IndependentCopy ==
    [][(pc' = "filtered" \/ (pc = "filtered" /\ pc' = "modified")) =>
           /\ res' # arg'
           /\ frames'[arg'] = frames[arg']]_vars

C18_Witness ==
    /\ pc = "modified"
    /\ Len(frames[arg].rows) = 1
    /\ frames[arg].rows[1].nombre = StrValue("Valid")
    /\ frames[res].rows[1].nombre = StrValue("Modified")

\* the one-to-one maps of the positions 1 .. n
Bijections(n) ==
    {f \in [1 .. n -> 1 .. n] : \A i, j \in 1 .. n : i # j => f[i] # f[j]}

\* C19: sort_by_chainage returns a permutation of the input records ordered
\* by non-decreasing abscisa_m and indexed 0 .. n-1, and leaves the input
\* record set and its order unchanged.
C19_SortedPermutation ==
    [][pc' = "sorted" =>
           LET gdf == frames[arg']
               out == frames'[res']
               n   == Len(gdf.rows)
           IN  /\ Len(out.rows) = n
               /\ \E f \in Bijections(n) :
                      \A i \in 1 .. n : out.rows[i] = gdf.rows[f[i]]
               /\ \A i \in 1 .. (n - 1) :
                      out.rows[i].abscisa_m <= out.rows[i + 1].abscisa_m
               /\ \A i \in 1 .. n : out.index[i] = i - 1
               /\ Len(out.index) = n
               /\ res' # arg'
               /\ frames'[arg'] = gdf]_vars

C19_Witness ==
    /\ pc = "sorted"
    /\ frames[1] \in TestFrames
    /\ arg = 2
    /\ line = <<(<<0, 0>>), (<<GridMax, 0>>)>>
    /\ [i \in 1 .. 3 |-> frames[arg].rows[i].abscisa_m] = <<GridMax, 0, 1>>
    /\ [i \in 1 .. 3 |-> frames[res].rows[i].abscisa_m] = <<0, 1, GridMax>>
    /\ frames[res].index = <<0, 1, 2>>

\* C20 (as claimed): sort_by_chainage is a stable sort: two records of
\* equal abscisa_m appear in the output in the relative order they had in
\* the input.
C20_StableSort ==
    pc = "sorted" =>
        LET gdf == frames[arg]
            out == frames[res]
            n   == Len(gdf.rows)
        IN  \E f \in Bijections(n) :
                /\ \A i \in 1 .. n : out.rows[i] = gdf.rows[f[i]]
                /\ \A i, j \in 1 .. n :
                       (i < j /\ out.rows[i].abscisa_m = out.rows[j].abscisa_m)
                           => f[i] < f[j]

---------------------------------------------------------------------------
(* Claims about the line normalizer, checked under SpecNormalizer *)

\* the parts chain end-to-end: every part starts where the one before ends
ChainEndToEnd(parts) ==
    \A i \in 1 .. (Len(parts) - 1) :
        parts[i][Len(parts[i])] = parts[i + 1][1]

\* the vertices of the parts of a chain in their given order, the end shared
\* by two parts taken once
RECURSIVE ChainVertices(_, _)
ChainVertices(parts, i) ==
    IF i > Len(parts) THEN <<>>
    ELSE IF i = 1 THEN parts[1] \o ChainVertices(parts, 2)
    ELSE Tail(parts[i]) \o ChainVertices(parts, i + 1)

\* C21 (as claimed): to_single_line on a multi-part line whose parts chain
\* end-to-end into one continuous path returns the single line that visits
\* the parts' vertices in their given order and direction, each shared
\* endpoint once.
C21_ChainMerged ==
    (/\ pc = "to_single_line_done"
     /\ line_geom.geom_type = "MultiLineString"
     /\ ChainEndToEnd(line_geom.geoms))
        => ret = Returned(LineString(ChainVertices(line_geom.geoms, 1)))

\* the parts, taken in the order f and each along (o[i] TRUE) or against
\* its direction, chain end-to-end
ArrangedChain(parts, f, o) ==
    \A i \in 1 .. (Len(parts) - 1) :
        (IF o[i] THEN parts[f[i]][Len(parts[f[i]])] ELSE parts[f[i]][1])
            = (IF o[i + 1] THEN parts[f[i + 1]][1]
               ELSE parts[f[i + 1]][Len(parts[f[i + 1]])])

\* no order and orientation of the parts makes them one path
CannotMerge(parts) ==
    \A f \in Bijections(Len(parts)) :
        \A o \in [1 .. Len(parts) -> BOOLEAN] : ~ArrangedChain(parts, f, o)

RECURSIVE SumOfLengths(_, _)
SumOfLengths(parts, i) ==
    IF i > Len(parts) THEN 0 ELSE Len(parts[i]) + SumOfLengths(parts, i + 1)

\* C22: to_single_line on a multi-part line whose parts cannot be merged
\* into one path returns, without failing, the line made of every vertex of
\* every part in the given part order and vertex order; its vertex count is
\* the sum of the parts' vertex counts.
C22_ConcatenationFallback ==
    (/\ pc = "to_single_line_done"
     /\ line_geom.geom_type = "MultiLineString"
     /\ CannotMerge(line_geom.geoms))
        => /\ ~ret.raised
           /\ ret.value.geom_type = "LineString"
           /\ Len(ret.value.coords) = SumOfLengths(line_geom.geoms, 1)
           /\ \A i \in 1 .. Len(line_geom.geoms) :
                  SubSeq(ret.value.coords,
                         SumOfLengths(line_geom.geoms, 1)
                             - SumOfLengths(line_geom.geoms, i) + 1,
                         SumOfLengths(line_geom.geoms, 1)
                             - SumOfLengths(line_geom.geoms, i + 1))
                      = line_geom.geoms[i]

C22_Witness ==
    /\ pc = "to_single_line_done"
    /\ line_geom = MultiLineString(<<(<<(<<0, 0>>), (<<1, 1>>)>>),
                                     (<<(<<2, 2>>), (<<3, 3>>)>>)>>)
    /\ CannotMerge(line_geom.geoms)
    /\ ret.value.coords = <<(<<0, 0>>), (<<1, 1>>), (<<2, 2>>), (<<3, 3>>)>>

\* C23: to_single_line returns a single LineString unchanged, and raises
\* TypeError for every geometry kind other than LineString and
\* MultiLineString.
C23_LineLikeOnly ==
    pc = "to_single_line_done" =>
        /\ (line_geom.geom_type = "LineString" => ret = Returned(line_geom))
        /\ (line_geom.geom_type \notin {"LineString", "MultiLineString"}
               => ret.raised /\ ret.value = "TypeError")
        /\ (line_geom.geom_type = "MultiLineString" => ~ret.raised)

C23_Witness ==
    /\ pc = "to_single_line_done"
    /\ line_geom.geom_type = "Polygon"
    /\ ret = Raised("TypeError")

\* C24: extract_single_line returns to_single_line of the first feature's
\* geometry, whatever the later features are, and raises IndexError when
\* the collection has no features.
C24_FirstFeatureOnly ==
    pc = "extract_single_line_done" =>
        IF Len(axis_gdf) = 0 THEN ret.raised /\ ret.value = "IndexError"
        ELSE /\ ret.raised = to_single_line(axis_gdf[1]).raised
             /\ ret.value = to_single_line(axis_gdf[1]).value

C24_Witness ==
    /\ pc = "extract_single_line_done"
    /\ Len(axis_gdf) = 2
    /\ axis_gdf[1] = LineString(<<(<<0, 0>>), (<<1, 1>>), (<<2, 0>>)>>)
    /\ axis_gdf[2].geom_type = "MultiLineString"
    /\ ret = Returned(axis_gdf[1])

(* Claims about side effects, checked under Spec *)

\* C25: annotate_to_axis leaves the feature collection it was given and the
\* alignment as they were; generate_chainage_points and
\* project_point_to_line leave the alignment as it was.
C25_NoSideEffects ==
    [][/\ pc = "annotate_call" => (frames'[1] = frames[1] /\ line' = line)
       /\ pc \in {"generate_call", "generate_loop", "geometry_call"}
              => line' = line]_vars

C25_Witness ==
    /\ pc = "annotated"
    /\ Len(frames[1].rows) = 2
    /\ Len(frames) = 2
    /\ frames[2] # frames[1]
    /\ line = <<(<<0, 0>>), (<<GridMax, 0>>), (<<GridMax, GridMax>>)>>

(* Claims about the independence of records, checked under SpecAnnotate *)

\* the ways to pick k rows out of n, each once, in any order
Selections(n) ==
    UNION {{f \in [1 .. k -> 1 .. n] :
               \A i, j \in 1 .. k : i # j => f[i] # f[j]} : k \in 1 .. n}

\* C26: the record of a feature depends on the feature and the alignment
\* only: annotating any selection of the features, in any order, gives for
\* each feature the record it has in the annotation of the whole
\* collection, and annotating the same input again gives the same records.
C26_PerFeatureIndependent ==
    pc = "annotated" =>
        \A f \in Selections(Len(frames[1].rows)) :
            LET sub == [j \in DOMAIN f |-> frames[1].rows[f[j]]]
                out == annotate_to_axis(sub, line, "Name")
            IN  /\ ~out.raised
                /\ Len(out.records) = Len(f)
                /\ \A j \in DOMAIN f :
                       out.records[j] = frames[res].rows[f[j]]

C26_Witness ==
    /\ pc = "annotated"
    /\ Len(frames[1].rows) = 2
    /\ frames[res].rows[1].nombre = StrValue("Valid")
    /\ frames[res].rows[2].nombre = SinNombre
    /\ frames[res].rows[1].abscisa_m # frames[res].rows[2].abscisa_m

(* Claims about get_centroids, checked under SpecCentroids *)

\* c balances the first moments of the geometry: of the area of a polygon,
\* of the length of a line; a point is where it is
IsCentroid(c, geom) ==
    IF geom.geom_type = "Polygon"
    THEN \A k \in 1 .. 2 :
            RingSum(geom.coords, k, 1) = 3 * c[k] * RingSum(geom.coords, 0, 1)
    ELSE IF geom.geom_type = "LineString"
    THEN \A k \in 1 .. 2 :
            LengthSum(geom.coords, k, 1)
                = 2 * c[k] * LengthSum(geom.coords, 0, 1)
    ELSE c = geom.coords[1]

\* C27: get_centroids returns a new collection in which each feature's
\* geometry is the centroid point of its geometry, the original geometry is
\* kept in geom_ori and every attribute column is kept; the input is not
\* modified, and writing into the result later does not change the input.
C27_CentroidsOfCopy ==
    [][/\ pc' = "centroids_done" =>
              /\ res' # arg'
              /\ frames'[arg'] = frames[arg']
              /\ frames'[res'].index = frames[arg'].index
              /\ Len(frames'[res'].rows) = Len(frames[arg'].rows)
              /\ \A i \in 1 .. Len(frames[arg'].rows) :
                     LET old == frames[arg'].rows[i]
                         new == frames'[res'].rows[i]
                     IN  /\ DOMAIN new = DOMAIN old \cup {"geom_ori"}
                         /\ new.geometry.geom_type = "Point"
                         /\ IsCentroid(new.geometry.coords[1], old.geometry)
                         /\ new.geom_ori = old.geometry
                         /\ new.Name = old.Name
       /\ pc' = "centroids_modified" => frames'[arg] = frames[arg]]_vars

C27_Witness ==
    /\ pc = "centroids_modified"
    /\ Len(frames[1].rows) = 2
    /\ frames[1].rows[1].Name = StrValue("Zone A")
    /\ frames[2].rows[1].Name = StrValue("Modified")
    /\ frames[1].rows[1].geometry.geom_type = "Polygon"
    /\ frames[2].rows[1].geometry = Point(<<1, 1>>)
    /\ frames[2].rows[1].geom_ori = frames[1].rows[1].geometry

(* Claims about the format string, checked under SpecCodec *)

\* template.format(km=km, rest=rest)
RECURSIVE StrFormat(_, _, _, _)
StrFormat(t, km, rest, i) ==
    IF i > Len(t) THEN <<>>
    ELSE (IF t[i] = "{km}" THEN IntToStr(km)
          ELSE IF t[i] = "{rest:03d}" THEN Format03d(rest)
          ELSE IF t[i] = "{rest}" THEN IntToStr(rest)
          ELSE <<t[i]>>) \o StrFormat(t, km, rest, i + 1)

\* C28 (as claimed): format_chainage renders the label by its template
\* argument: the default template gives "K{km}+{rest:03d}", another template
\* gives the label that template describes.
C28_TemplateRendered ==
    pc = "formatted" =>
        LET dm == PyDivmod(PyRound(distance_m), 1000)
        IN  label = StrFormat(template, dm[1], dm[2], 1)

(* Claims about the second projection, checked under SpecProjection *)

\* C29: the abscisa_m recorded by annotate_to_axis, which is the
\* along-line distance of the projected axis point projected again, is the
\* along-line distance the first projection of the feature returned, on
\* every alignment, one that touches, crosses or runs over itself included.
C29_SecondProjectionSame ==
    pc = "annotate_done" =>
        ret.records[1].abscisa_m = project_point_to_line(point, line)[2]

\* the alignment runs out and back over itself: the projected point (1, 0)
\* lies on it at the distances 1 and 3
C29_Witness ==
    /\ pc = "annotate_done"
    /\ line = <<(<<0, 0>>), (<<2, 0>>), (<<0, 0>>)>>
    /\ point = <<1, 1>>
    /\ ret.records[1].geometry_axis = <<1, 0>>
    /\ ret.records[1].abscisa_m = project_point_to_line(point, line)[2]
    /\ ret.records[1].abscisa_m < LineLength(line) - ret.records[1].abscisa_m

(* Claims about a frame of no features, checked under SpecAnnotate *)

\* C30 (as claimed): annotate_to_axis on a collection of no features
\* returns an empty record set and raises nothing.
C30_EmptyAnnotated ==
    (Len(frames[1].rows) = 0 /\ pc # "annotate_call") =>
        /\ pc # "annotate_raised"
        /\ res # 0
        /\ Len(frames[res].rows) = 0

====
